---------------------------- MODULE Spec2Model ----------------------------
(***************************************************************************)
(* A model of the voice-cloner repository: the Chatterbox and Coqui        *)
(* engines (engines/chatterbox_engine.py, engines/coqui_engine.py), the    *)
(* VoiceCloner orchestrator (voice_cloner.py), the engine registry         *)
(* (tts_factory.py), the command line (vcloner.py) and the desktop         *)
(* application with its worker thread (voice_cloning_app.py).              *)
(*                                                                         *)
(* Texts are sequences of symbols: a symbol is a maximal run of word       *)
(* characters ("hi", "laugh", "foo"), a blank, or a bracket.  Float        *)
(* parameters are held in hundredths (0.5 is 50), as the sliders of        *)
(* gui/engine_controls.py hold them.                                       *)
(***************************************************************************)
EXTENDS Integers, Sequences, FiniteSets, TLC

VARIABLES
    \* ChatterboxEngine.validate_text applied to one text; vt_verdict holds the
    \* returned (is_valid, message) once the call has been made
    vt_variant, vt_text, vt_verdict,
    \* one engine instance made by TTSFactory.create and its surroundings:
    \* the id it was created under, whether _model / _tts is loaded, whether
    \* the reference audio exists, whether the backing package can be imported
    eng_id, eng_loaded, speaker_exists, dep_installed,
    \* the last call of generate: its arguments, the call it forwarded to the
    \* backing model (if any) and its outcome
    eng_request, eng_forwarded, eng_result,
    \* what the last call of generate did besides: the loader it invoked with
    \* the loader's outcome (if it invoked it), the scratch file it made (if it
    \* made one); and the scratch files on the disk
    eng_load, eng_scratch, eng_tmp,
    \* one VoiceCloner (voice_cloner.py) and its surroundings: how far its
    \* construction got, whether the TTS model is loaded, the reference audio it
    \* was given, the audio files on the disk (path to sample rate), and the last call of say: its
    \* arguments, the call forwarded to the TTS model, the playback and the outcome
    vc_state, vc_tts_loaded, vc_speaker_wav, vc_files,
    vc_request, vc_forwarded, vc_played, vc_result,
    \* the path the last call of say wrote its audio to (if any), and the audio
    \* and sample rate sf.read gave it (if it got that far)
    vc_written, vc_audio,
    \* VoiceCloningApp (voice_cloning_app.py): the selected reference audio, the
    \* engine the combo box shows, the widgets' enabled and visible flags, the
    \* current CloneThread (0: None), _temp_voice_file, current_audio, the last
    \* message box shown, and where the main thread is (idle in the event loop,
    \* waiting in closeEvent, closed)
    voice_path, engine_combo, ui, clone_thread, temp_voice_file, current_audio,
    dialog, main_pc,
    \* every CloneThread made so far, the signals emitted by workers and not yet
    \* handled by the main thread, and the temporary files on the disk
    threads, signal_queue, tmp_files,
    \* TTSFactory (tts_factory.py): the class attributes _registry and
    \* _display_names (dicts, in insertion order), how far the import of the
    \* module got, every call of register so far, the last call of a class
    \* method with its outcome, and the object the last call handed to its caller
    registry, display_names, fac_pc, reg_log, fac_call, fac_result, fac_returned,
    \* one run of vcloner.py: how far it got, the parsed arguments, the lines
    \* it has printed or logged, what the VoiceCloner it used raised (if
    \* anything), and the exit status of the process
    cli_pc, cli_args, cli_out, cli_raised, cli_exit

textVars == <<vt_variant, vt_text, vt_verdict>>

engVars == <<eng_id, eng_loaded, speaker_exists, dep_installed,
             eng_request, eng_forwarded, eng_result, eng_load, eng_scratch, eng_tmp>>

clonerVars == <<vc_state, vc_tts_loaded, vc_speaker_wav, vc_files,
                vc_request, vc_forwarded, vc_played, vc_result, vc_written, vc_audio>>

guiVars == <<voice_path, engine_combo, ui, clone_thread, temp_voice_file, current_audio,
             dialog, main_pc, threads, signal_queue, tmp_files>>

facVars == <<registry, display_names, fac_pc, reg_log, fac_call, fac_result, fac_returned>>

cliVars == <<cli_pc, cli_args, cli_out, cli_raised, cli_exit>>

vars == <<textVars, engVars, clonerVars, guiVars, facVars, cliVars>>

\* what an action of one component leaves alone
exceptText == <<engVars, clonerVars, guiVars, facVars, cliVars>>
exceptEngine == <<textVars, clonerVars, guiVars, facVars, cliVars>>
exceptCloner == <<textVars, engVars, guiVars, facVars, cliVars>>
exceptGui == <<textVars, engVars, clonerVars, facVars, cliVars>>
exceptFactory == <<textVars, engVars, clonerVars, guiVars, cliVars>>
exceptCli == <<textVars, engVars, clonerVars, guiVars, facVars>>

None == "None"

\* keyword arguments are a function from names to values; no keyword given
NoKwargs == [k \in {} |-> None]

(***************************************************************************)
(* Bounds                                                                  *)
(***************************************************************************)
MaxTextLen == 6

\* keyword overrides given to one call of generate
MaxOverrides == 1

\* CloneThreads one window makes
MaxThreads == 2

\* calls of TTSFactory.register after the module's own
MaxRegisters == 2

(***************************************************************************)
(* Texts                                                                   *)
(***************************************************************************)
Blank == " "
LBracket == "["
RBracket == "]"

\* maximal runs of characters matched by the regular expression class \w
Words == {"hi", "laugh", "foo"}

\* the symbols the enumerated texts are made of
Symbols == {"laugh", "foo", Blank, LBracket, RBracket}

\* two word runs side by side would be one longer run
Normalized(s) == \A i \in 1..(Len(s) - 1) : ~(s[i] \in Words /\ s[i + 1] \in Words)

RECURSIVE SeqsUpTo(_)
SeqsUpTo(n) ==
    IF n = 0 THEN {<<>>}
    ELSE LET shorter == SeqsUpTo(n - 1)
         IN  shorter \cup {Append(s, c) : s \in {x \in shorter : Len(x) = n - 1}, c \in Symbols}

AllTexts == {s \in SeqsUpTo(MaxTextLen) : Normalized(s)}

RECURSIVE LStrip(_)
LStrip(s) == IF s # <<>> /\ Head(s) = Blank THEN LStrip(Tail(s)) ELSE s

RECURSIVE RStrip(_)
RStrip(s) ==
    IF s # <<>> /\ s[Len(s)] = Blank THEN RStrip(SubSeq(s, 1, Len(s) - 1)) ELSE s

\* str.strip()
Strip(s) == RStrip(LStrip(s))

(***************************************************************************)
(* ChatterboxEngine: tags and text validation                              *)
(***************************************************************************)
ChatterboxVariants == {"turbo", "standard"}

PARALINGUISTIC_TAGS == <<"laugh", "chuckle", "cough", "sigh", "gasp", "yawn">>

InList(x, list) == \E i \in 1..Len(list) : list[i] = x

supports_paralinguistic_tags_Always(variant) == TRUE

\* return self.variant == "turbo"
supports_paralinguistic_tags(variant) == variant = "turbo"

get_paralinguistic_tags(variant) ==
    IF supports_paralinguistic_tags(variant) THEN PARALINGUISTIC_TAGS ELSE <<>>

\* re.findall(r'\[(\w+)\]', text): the scan goes left to right and goes on
\* after the end of each match
RECURSIVE FindTagsFrom(_, _)
FindTagsFrom(text, i) ==
    IF i + 2 > Len(text) THEN <<>>
    ELSE IF text[i] = LBracket /\ text[i + 1] \in Words /\ text[i + 2] = RBracket
         THEN <<text[i + 1]>> \o FindTagsFrom(text, i + 3)
         ELSE FindTagsFrom(text, i + 1)

re_findall_tags(text) == FindTagsFrom(text, 1)

invalid_tags_FirstOnly(tags_found) ==
    IF tags_found # <<>> /\ ~InList(Head(tags_found), PARALINGUISTIC_TAGS)
    THEN <<Head(tags_found)>>
    ELSE <<>>

\* [t for t in tags_found if t not in self.PARALINGUISTIC_TAGS]
invalid_tags(tags_found) ==
    SelectSeq(tags_found, LAMBDA t : ~InList(t, PARALINGUISTIC_TAGS))

Verdict(valid, kind, tags, supported) ==
    [valid |-> valid, message |-> [kind |-> kind, tags |-> tags, supported |-> supported]]

validate_text(variant, text) ==
    IF Strip(text) = <<>>
    THEN Verdict(FALSE, "Text cannot be empty", <<>>, <<>>)
    ELSE LET tags_found == re_findall_tags(text)
         IN  IF tags_found # <<>> /\ ~supports_paralinguistic_tags(variant)
             THEN Verdict(FALSE, "Paralinguistic tags are only supported in Turbo variant",
                          tags_found, <<>>)
             ELSE IF tags_found # <<>> /\ supports_paralinguistic_tags(variant)
                     /\ invalid_tags(tags_found) # <<>>
                  THEN Verdict(FALSE, "Unknown tags", invalid_tags(tags_found),
                               PARALINGUISTIC_TAGS)
                  ELSE Verdict(TRUE, "OK", <<>>, <<>>)

(***************************************************************************)
(* Engines: registration, parameter schemas, generate                      *)
(***************************************************************************)
EngineIds == {"coqui", "chatterbox-turbo", "chatterbox-standard"}

\* _register_default_engines: the class registered under each id and the
\* variant its default kwargs carry
engine_class(id) == IF id = "coqui" THEN "CoquiEngine" ELSE "ChatterboxEngine"

engine_variant(id) == IF id = "chatterbox-standard" THEN "standard" ELSE "turbo"

COQUI_SUPPORTED_LANGUAGES ==
    <<"en", "es", "fr", "de", "it", "pt", "pl", "tr", "ru", "nl", "cs", "ar", "zh", "ja",
      "hu", "ko">>

CHATTERBOX_SUPPORTED_LANGUAGES == <<"en">>

supports_languages(cls) ==
    IF cls = "CoquiEngine" THEN COQUI_SUPPORTED_LANGUAGES ELSE CHATTERBOX_SUPPORTED_LANGUAGES

ChatterboxParameters ==
    [cfg_weight |-> [type |-> "float", default |-> 50, min |-> 0, max |-> 100],
     exaggeration |-> [type |-> "float", default |-> 50, min |-> 0, max |-> 150]]

CoquiParameters ==
    [language |-> [type |-> "str", default |-> "en", options |-> COQUI_SUPPORTED_LANGUAGES],
     temperature |-> [type |-> "float", default |-> 70, min |-> 10, max |-> 100],
     gpt_cond_len |-> [type |-> "int", default |-> 128, min |-> 32, max |-> 256]]

get_supported_parameters(cls) ==
    IF cls = "CoquiEngine" THEN CoquiParameters ELSE ChatterboxParameters

\* the arguments a caller may hand to generate
EngTexts ==
    {<<"hi">>, <<Blank>>, <<"hi", Blank, LBracket, "laugh", RBracket>>,
     <<"hi", Blank, LBracket, "foo", RBracket>>}

Languages == {"en", "fr", "xx"}

OverrideKeys == {"cfg_weight", "exaggeration", "temperature", "gpt_cond_len", "pitch"}

OverrideValues(k) ==
    CASE k = "cfg_weight" -> {-1, 0, 100, 101}
      [] k = "exaggeration" -> {-1, 0, 150, 151}
      [] k = "temperature" -> {9, 10, 100, 101}
      [] k = "gpt_cond_len" -> {31, 32, 256, 257}
      [] OTHER -> {0}

Overrides ==
    UNION {{f \in [S -> UNION {OverrideValues(k) : k \in S}] :
                \A k \in S : f[k] \in OverrideValues(k)} :
           S \in {T \in SUBSET OverrideKeys : Cardinality(T) <= MaxOverrides}}

\* a keyword parameter with a default: the caller's value when it gives one
Arg(kwargs, k, default) == IF k \in DOMAIN kwargs THEN kwargs[k] ELSE default

\* the XTTS model refuses a language code outside its list
xtts_accepts_language(language) == InList(language, COQUI_SUPPORTED_LANGUAGES)

Request(text, language, kwargs) == [text |-> text, language |-> language, kwargs |-> kwargs]

must_load_Always(loaded) == TRUE

\* the properties model and tts: if self._model is None / if self._tts is None
must_load(loaded) == ~loaded

\* what the loader does: the import of the backing package raises ImportError
\* when it is not installed; ChatterboxTTS.from_pretrained / TTS(model_name=...)
\* returns the model or raises
LoadOutcomes(installed) == IF installed THEN {"ok", "LoadError"} ELSE {"ImportError"}

\* the loader invocations one evaluation of self.model / self.tts may make
LazyLoads(loaded, installed) ==
    IF must_load(loaded) THEN {<<outcome>> : outcome \in LoadOutcomes(installed)}
    ELSE {<<>>}

LoadFailed(load) == load # <<>> /\ load[1] # "ok"

\* tempfile.mkstemp(suffix=".wav"): a file that was not there is made
mkstemp(files) == <<"tmp", Cardinality(files) + 1>>

os_remove_Noop(files, path) == files

os_remove(files, path) == files \ {path}

\* CoquiEngine.generate: finally: if os.path.exists(temp_path): os.remove(temp_path)
generate_finally(files, temp_path) ==
    IF temp_path \in files THEN os_remove(files, temp_path) ELSE files

\* ChatterboxEngine.generate(text, language, cfg_weight, exaggeration, **kwargs),
\* called with keyword arguments out of callers_kwargs
ChatterboxGenerateWith(callers_kwargs) ==
    /\ engine_class(eng_id) = "ChatterboxEngine"
    /\ \E text \in EngTexts, language \in Languages, kwargs \in callers_kwargs,
          backend_ok \in BOOLEAN :
          /\ eng_request' = <<Request(text, language, kwargs)>>
          /\ IF ~speaker_exists
             THEN /\ eng_result' = "FileNotFoundError"
                  /\ eng_forwarded' = <<>>
                  /\ eng_load' = <<>>
                  /\ UNCHANGED eng_loaded
             ELSE \E load \in LazyLoads(eng_loaded, dep_installed) :
                  /\ eng_load' = load
                  /\ IF LoadFailed(load)
                     THEN /\ eng_result' = load[1]
                          /\ eng_forwarded' = <<>>
                          /\ UNCHANGED eng_loaded
                     ELSE /\ eng_loaded' = TRUE
                          /\ eng_forwarded' =
                                <<[text |-> text,
                                   cfg_weight |-> Arg(kwargs, "cfg_weight", 50),
                                   exaggeration |-> Arg(kwargs, "exaggeration", 50)]>>
                          /\ eng_result' = IF backend_ok THEN "audio" ELSE "BackendError"
    /\ eng_scratch' = <<>>
    /\ UNCHANGED <<eng_id, speaker_exists, dep_installed, eng_tmp>>
    /\ UNCHANGED exceptEngine

ChatterboxGenerate == ChatterboxGenerateWith(Overrides)

\* CoquiEngine.generate(text, language, temperature, gpt_cond_len, **kwargs),
\* called with keyword arguments out of callers_kwargs
CoquiGenerateWith(callers_kwargs) ==
    /\ engine_class(eng_id) = "CoquiEngine"
    /\ \E text \in EngTexts, language \in Languages, kwargs \in callers_kwargs,
          backend_ok \in BOOLEAN, load \in LazyLoads(eng_loaded, dep_installed) :
          LET temp_path == mkstemp(eng_tmp)
          IN  /\ eng_request' = <<Request(text, language, kwargs)>>
              /\ eng_scratch' = <<temp_path>>
              /\ eng_load' = load
              /\ IF LoadFailed(load)
                 THEN /\ eng_result' = load[1]
                      /\ eng_forwarded' = <<>>
                      /\ UNCHANGED eng_loaded
                 ELSE /\ eng_loaded' = TRUE
                      /\ eng_forwarded' =
                            <<[text |-> text,
                               language |-> language,
                               gpt_cond_len |-> Arg(kwargs, "gpt_cond_len", 128),
                               temperature |-> Arg(kwargs, "temperature", 70)]>>
                      /\ eng_result' =
                            IF backend_ok /\ speaker_exists /\ xtts_accepts_language(language)
                            THEN "audio"
                            ELSE "BackendError"
              /\ eng_tmp' = generate_finally(eng_tmp \cup {temp_path}, temp_path)
    /\ UNCHANGED <<eng_id, speaker_exists, dep_installed>>
    /\ UNCHANGED exceptEngine

CoquiGenerate == CoquiGenerateWith(Overrides)

\* generate as VoiceCloner's callers reach it when they set no parameter
ChatterboxGenerateDefaults == ChatterboxGenerateWith({NoKwargs})

CoquiGenerateDefaults == CoquiGenerateWith({NoKwargs})

IdleEngine ==
    /\ eng_id = "coqui"
    /\ eng_loaded = FALSE
    /\ speaker_exists = TRUE
    /\ dep_installed = TRUE
    /\ eng_request = <<>>
    /\ eng_forwarded = <<>>
    /\ eng_result = None
    /\ eng_load = <<>>
    /\ eng_scratch = <<>>
    /\ eng_tmp = {}

IdleText ==
    /\ vt_variant = "turbo"
    /\ vt_text = <<>>
    /\ vt_verdict = <<>>

(***************************************************************************)
(* VoiceCloner (voice_cloner.py)                                           *)
(***************************************************************************)
\* reference audio paths a caller may give: one that exists, one that does not
SpeakerPaths == {"voice.wav", "nonexistent_file.wav"}

path_exists(path) == path = "voice.wav"

\* os.path.splitext(os.path.basename(speaker_wav))[0]
prefix_of(path) == IF path = "voice.wav" THEN "voice" ELSE "nonexistent_file"

\* datetime.now() at the second's resolution, as the save path holds it
Timestamps == {"20250101_000000", "20250101_000001"}

\* sample rates the TTS model may report, speeds (in hundredths) a caller may ask
SampleRates == {22050, 24000}

Speeds == {100, 125, 200}

\* the samples the TTS model makes of a text
synthesized(text) == <<"samples of", text>>

adjusted_samplerate_Rounded(samplerate, speed) == (samplerate * speed + 50) \div 100

\* int(samplerate * speed)
adjusted_samplerate(samplerate, speed) == (samplerate * speed) \div 100

\* VoiceCloner.__init__(model_name, speaker_wav, device)
VoiceClonerInit ==
    /\ vc_state = "none"
    /\ \E speaker_wav \in SpeakerPaths, load_ok \in BOOLEAN :
          /\ vc_speaker_wav' = speaker_wav
          /\ IF ~load_ok
             THEN /\ vc_state' = "LoadError"
                  /\ UNCHANGED vc_tts_loaded
             ELSE /\ vc_tts_loaded' = TRUE
                  /\ vc_state' = IF path_exists(speaker_wav) THEN "ready"
                                 ELSE "FileNotFoundError"
    /\ UNCHANGED <<vc_files, vc_request, vc_forwarded, vc_played, vc_result, vc_written,
                   vc_audio>>
    /\ UNCHANGED exceptCloner

\* the path say hands to _save_audio_to_file:
\* f"{self.prefix}_audio_{timestamp}.wav"
save_path(prefix, timestamp) == <<prefix, "_audio_", timestamp>>

\* what _save_audio_to_file writes: the file at save_path, or nothing when
\* sf.write fails (the error is logged and not raised)
SaveOutcomes(save_audio, prefix) ==
    IF save_audio
    THEN {<<>>} \cup {<<save_path(prefix, ts)>> : ts \in Timestamps}
    ELSE {<<>>}

\* the disk after that: a file written again is replaced
AfterSave(files, written, samplerate) ==
    IF written = <<>> THEN files
    ELSE [p \in DOMAIN files \cup {written[1]} |->
             IF p = written[1] THEN samplerate ELSE files[p]]

\* what _play_audio hands to the audio device: sd.play(audio_data,
\* adjusted_samplerate), or nothing when the device fails (the error is logged
\* and not raised)
AfterPlay(play_audio, audio_data, samplerate, speed) ==
    IF play_audio
    THEN {<<>>, <<[audio_data |-> audio_data,
                   samplerate |-> adjusted_samplerate(samplerate, speed)]>>}
    ELSE {<<>>}

\* the keyword arguments callers add to say: none, or output_file as
\* vcloner.py and voice_cloning_app.py give it
SayKeywords == {NoKwargs, [output_file |-> "out.wav"]}

\* the parameters say declares
say_parameters == {"text_to_voice", "language", "play_audio", "save_audio", "speed"}

\* VoiceCloner.say(text_to_voice, language, play_audio, save_audio, speed).
\* A keyword that say does not declare makes the call raise TypeError.
say ==
    /\ vc_state = "ready"
    /\ \E text \in EngTexts, language \in Languages, play_audio \in BOOLEAN,
          save_audio \in BOOLEAN, speed \in Speeds, keywords \in SayKeywords :
          /\ vc_request' = <<[text |-> text, language |-> language,
                              play_audio |-> play_audio, save_audio |-> save_audio,
                              speed |-> speed, keywords |-> keywords]>>
          /\ IF ~(DOMAIN keywords \subseteq say_parameters)
             THEN /\ vc_result' = "TypeError"
                  /\ vc_forwarded' = <<>>
                  /\ vc_played' = <<>>
                  /\ vc_written' = <<>>
                  /\ vc_audio' = <<>>
                  /\ UNCHANGED vc_files
             ELSE /\ vc_forwarded' = <<[text |-> text, language |-> language,
                                        gpt_cond_len |-> 128, temperature |-> 70]>>
                  /\ \/ /\ vc_result' = "BackendError"
                        /\ vc_played' = <<>>
                        /\ vc_written' = <<>>
                        /\ vc_audio' = <<>>
                        /\ UNCHANGED vc_files
                     \/ /\ xtts_accepts_language(language)
                        /\ vc_result' = "returned"
                        /\ \E samplerate \in SampleRates :
                              /\ vc_audio' = <<[audio_data |-> synthesized(text),
                                                samplerate |-> samplerate]>>
                              /\ vc_written' \in SaveOutcomes(save_audio,
                                                             prefix_of(vc_speaker_wav))
                              /\ vc_files' = AfterSave(vc_files, vc_written', samplerate)
                              /\ vc_played' \in AfterPlay(play_audio, synthesized(text),
                                                          samplerate, speed)
    /\ UNCHANGED <<vc_state, vc_tts_loaded, vc_speaker_wav>>
    /\ UNCHANGED exceptCloner

IdleCloner ==
    /\ vc_state = "none"
    /\ vc_tts_loaded = FALSE
    /\ vc_speaker_wav = None
    /\ vc_files = <<>>
    /\ vc_request = <<>>
    /\ vc_forwarded = <<>>
    /\ vc_played = <<>>
    /\ vc_result = None
    /\ vc_written = <<>>
    /\ vc_audio = <<>>

(***************************************************************************)
(* VoiceCloningApp and CloneThread (voice_cloning_app.py)                  *)
(***************************************************************************)
ThreadIds == 1..MaxThreads

\* what the user may have typed when clicking Generate
GuiTexts ==
    {<<>>, <<Blank>>, <<Blank, "hi">>, <<"hi", Blank, LBracket, "foo", RBracket>>}

\* CoquiControls.get_parameters / ChatterboxControls.get_parameters: values
\* the sliders and the language combo box can hold (the initial ones, and the
\* upper ends of the sliders)
ControlParameters(engine_name) ==
    IF engine_name = "coqui"
    THEN {[language |-> "en", temperature |-> 70], [language |-> "fr", temperature |-> 100]}
    ELSE {[cfg_weight |-> 50, exaggeration |-> 50], [cfg_weight |-> 100, exaggeration |-> 150]}

\* no file (None where a path may stand)
NoFile == <<"none", 0>>

NoThread ==
    [state |-> "none", pc |-> "none", text |-> <<>>, voice_path |-> NoFile,
     engine_name |-> None, engine_params |-> <<>>, output_path |-> NoFile,
     escaped |-> FALSE, emitted |-> <<>>]

\* the uuid-named files of the n-th generation
TempVoice(n) == <<"voice", n>>

OutputFile(n) == <<"output", n>>

isRunning_UntilSignal(t) == threads[t].state = "running" /\ threads[t].pc # "return"

\* QThread.isRunning(): from start() until run() has returned
isRunning(t) == threads[t].state = "running"

generation_in_progress_Never == FALSE

\* self.clone_thread and self.clone_thread.isRunning()
generation_in_progress == clone_thread # 0 /\ isRunning(clone_thread)

\* a CloneThread that self.clone_thread no longer refers to: once it has
\* finished nothing holds its fields (what it emitted is kept as history)
Released(thread) ==
    IF thread.state = "finished"
    THEN [NoThread EXCEPT !.state = "finished", !.pc = "done",
                          !.escaped = thread.escaped, !.emitted = thread.emitted]
    ELSE thread

\* the CloneThreads made so far
Made == {t \in ThreadIds : threads[t].state # "none"}

UiDisabled == [ui EXCEPT !.btn_generate = FALSE, !.btn_select_voice = FALSE,
                         !.engine_combo = FALSE, !.btn_play = FALSE, !.btn_save = FALSE]

reset_ui_state_Nothing(u) == u

\* _reset_ui_state
reset_ui_state(u) ==
    [u EXCEPT !.btn_generate = TRUE, !.btn_select_voice = TRUE, !.engine_combo = TRUE]

\* select_voice_file: the dialog is accepted with a file chosen
select_voice_file ==
    /\ main_pc = "idle"
    /\ ui.btn_select_voice
    /\ voice_path' = "voice.wav"
    /\ UNCHANGED <<engine_combo, ui, clone_thread, temp_voice_file, current_audio, dialog,
                   main_pc, threads, signal_queue, tmp_files>>
    /\ UNCHANGED exceptGui

\* on_engine_changed: another engine is chosen in the combo box
on_engine_changed ==
    /\ main_pc = "idle"
    /\ ui.engine_combo
    /\ \E engine_name \in EngineIds \ {engine_combo} : engine_combo' = engine_name
    /\ UNCHANGED <<voice_path, ui, clone_thread, temp_voice_file, current_audio, dialog,
                   main_pc, threads, signal_queue, tmp_files>>
    /\ UNCHANGED exceptGui

\* start_cloning with a request that returns early: the message box it shows
Rejection(text) ==
    IF voice_path = None THEN "Missing Voice Reference"
    ELSE IF text = <<>> THEN "Missing Text"
    ELSE IF generation_in_progress THEN "Generation In Progress"
    ELSE None

\* start_cloning: a click on the Generate button, with the text typed and the
\* parameters set at that moment; read_ok: the reference audio can be copied
start_cloning_with(raw_text, engine_params, read_ok) ==
    LET text == Strip(raw_text)
        n == Cardinality(Made) + 1
    IN  IF Rejection(text) # None
        THEN /\ dialog' = Rejection(text)
             /\ UNCHANGED <<ui, clone_thread, temp_voice_file, threads, tmp_files>>
        ELSE IF ~read_ok
        THEN /\ ui' = reset_ui_state(UiDisabled)
             /\ dialog' = "File Error"
             /\ UNCHANGED <<clone_thread, temp_voice_file, threads, tmp_files>>
        ELSE /\ n \in ThreadIds
             /\ ui' = UiDisabled
             /\ tmp_files' = tmp_files \cup {TempVoice(n)}
             /\ temp_voice_file' = TempVoice(n)
             /\ threads' = [t \in ThreadIds |->
                                IF t = n
                                THEN [state |-> "running", pc |-> "mkdir", text |-> text,
                                      voice_path |-> TempVoice(n),
                                      engine_name |-> engine_combo,
                                      engine_params |-> engine_params,
                                      output_path |-> NoFile,
                                      escaped |-> FALSE, emitted |-> <<>>]
                                ELSE IF t = clone_thread THEN Released(threads[t])
                                ELSE threads[t]]
             /\ clone_thread' = n
             /\ UNCHANGED dialog

start_cloning ==
    /\ main_pc = "idle"
    /\ ui.btn_generate
    /\ \E raw_text \in GuiTexts, engine_params \in ControlParameters(engine_combo),
          read_ok \in BOOLEAN :
          start_cloning_with(raw_text, engine_params, read_ok)
    /\ UNCHANGED <<voice_path, engine_combo, current_audio, main_pc, signal_queue>>
    /\ UNCHANGED exceptGui

Emit(t, signal, args) ==
    /\ threads' = [threads EXCEPT ![t].pc = "return", ![t].emitted = Append(@, signal)]
    /\ signal_queue' = Append(signal_queue, [thread |-> t, signal |-> signal, args |-> args])

run_except_OnlyOSError(t, exc) ==
    IF exc = "OSError"
    THEN Emit(t, "error_occurred", <<exc>>)
    ELSE /\ threads' = [threads EXCEPT ![t].pc = "return", ![t].escaped = TRUE]
         /\ UNCHANGED signal_queue

\* CloneThread.run: except Exception as e: self.error_occurred.emit(str(e))
run_except(t, exc) == Emit(t, "error_occurred", <<exc>>)

\* CloneThread.run: output_dir.mkdir(exist_ok=True), then self.output_path
WorkerMkdir(t) ==
    /\ threads[t].state = "running" /\ threads[t].pc = "mkdir"
    /\ \/ /\ threads' = [threads EXCEPT ![t].pc = "construct",
                                        ![t].output_path = OutputFile(t)]
          /\ UNCHANGED signal_queue
       \/ run_except(t, "OSError")
    /\ UNCHANGED <<voice_path, engine_combo, ui, clone_thread, temp_voice_file,
                   current_audio, dialog, main_pc, tmp_files>>
    /\ UNCHANGED exceptGui

\* CloneThread.run: VoiceCloner(speaker_wav=self.voice_path, engine=self.engine_name).
\* The call returns or raises; the VoiceCloner of voice_cloner.py has no
\* parameter engine, and the call raises TypeError with it.
WorkerConstruct(t) ==
    /\ threads[t].state = "running" /\ threads[t].pc = "construct"
    /\ \/ /\ threads[t].voice_path \in tmp_files
          /\ threads' = [threads EXCEPT ![t].pc = "say"]
          /\ UNCHANGED signal_queue
       \/ \E exc \in {"TypeError", "FileNotFoundError"} : run_except(t, exc)
    /\ UNCHANGED <<voice_path, engine_combo, ui, clone_thread, temp_voice_file,
                   current_audio, dialog, main_pc, tmp_files>>
    /\ UNCHANGED exceptGui

\* CloneThread.run: voice_cloner.say(..., save_audio=True, output_file=...) and
\* self.finished.emit(str(self.output_path), self.text).  The call returns,
\* with the output file written or not (_save_audio_to_file does not raise),
\* or raises.
WorkerSay(t) ==
    /\ threads[t].state = "running" /\ threads[t].pc = "say"
    /\ \/ /\ threads[t].voice_path \in tmp_files
          /\ tmp_files' \in {tmp_files, tmp_files \cup {threads[t].output_path}}
          /\ Emit(t, "finished", <<threads[t].output_path, threads[t].text>>)
       \/ /\ run_except(t, "RuntimeError")
          /\ UNCHANGED tmp_files
    /\ UNCHANGED <<voice_path, engine_combo, ui, clone_thread, temp_voice_file,
                   current_audio, dialog, main_pc>>
    /\ UNCHANGED exceptGui

\* CloneThread.run returns: the thread is no longer running
WorkerReturn(t) ==
    /\ threads[t].state = "running" /\ threads[t].pc = "return"
    /\ threads' = [threads EXCEPT ![t].state = "finished", ![t].pc = "done"]
    /\ UNCHANGED <<voice_path, engine_combo, ui, clone_thread, temp_voice_file,
                   current_audio, dialog, main_pc, signal_queue, tmp_files>>
    /\ UNCHANGED exceptGui

\* on_cloning_finished, run by the main thread's event loop
on_cloning_finished ==
    /\ main_pc = "idle"
    /\ signal_queue # <<>> /\ Head(signal_queue).signal = "finished"
    /\ current_audio' = Head(signal_queue).args[1]
    /\ ui' = [reset_ui_state(ui) EXCEPT !.btn_play = TRUE, !.btn_save = TRUE]
    /\ signal_queue' = Tail(signal_queue)
    /\ UNCHANGED <<voice_path, engine_combo, clone_thread, temp_voice_file, dialog,
                   main_pc, threads, tmp_files>>
    /\ UNCHANGED exceptGui

\* on_cloning_error, run by the main thread's event loop
on_cloning_error ==
    /\ main_pc = "idle"
    /\ signal_queue # <<>> /\ Head(signal_queue).signal = "error_occurred"
    /\ ui' = reset_ui_state(ui)
    /\ dialog' = "Generation Error"
    /\ signal_queue' = Tail(signal_queue)
    /\ UNCHANGED <<voice_path, engine_combo, clone_thread, temp_voice_file, current_audio,
                   main_pc, threads, tmp_files>>
    /\ UNCHANGED exceptGui

\* _cleanup_temp_files
cleanup_temp_files(files) == files \ {temp_voice_file, current_audio}

\* closeEvent: with a thread running it goes into clone_thread.wait(1000)
closeEvent ==
    /\ main_pc = "idle"
    /\ IF generation_in_progress
       THEN /\ main_pc' = "wait"
            /\ UNCHANGED tmp_files
       ELSE /\ main_pc' = "closed"
            /\ tmp_files' = cleanup_temp_files(tmp_files)
    /\ UNCHANGED <<voice_path, engine_combo, ui, clone_thread, temp_voice_file,
                   current_audio, dialog, threads, signal_queue>>
    /\ UNCHANGED exceptGui

\* closeEvent: wait(1000) returns, the thread having finished or the second
\* having passed, and the temporary files are cleaned up
closeEvent_after_wait ==
    /\ main_pc = "wait"
    /\ main_pc' = "closed"
    /\ tmp_files' = cleanup_temp_files(tmp_files)
    /\ UNCHANGED <<voice_path, engine_combo, ui, clone_thread, temp_voice_file,
                   current_audio, dialog, threads, signal_queue>>
    /\ UNCHANGED exceptGui

IdleGui ==
    /\ voice_path = None
    /\ engine_combo = "coqui"
    /\ ui = [btn_generate |-> TRUE, btn_select_voice |-> TRUE, engine_combo |-> TRUE,
             btn_play |-> FALSE, btn_save |-> FALSE]
    /\ clone_thread = 0
    /\ temp_voice_file = NoFile
    /\ current_audio = NoFile
    /\ dialog = None
    /\ main_pc = "idle"
    /\ threads = [t \in ThreadIds |-> NoThread]
    /\ signal_queue = <<>>
    /\ tmp_files = {}

(***************************************************************************)
(* TTSFactory (tts_factory.py)                                             *)
(***************************************************************************)
\* a dict is a sequence of items in insertion order, each key once
EmptyDict == <<>>

dict_keys(d) == [i \in 1..Len(d) |-> d[i].key]

dict_contains(d, k) == \E i \in 1..Len(d) : d[i].key = k

dict_get(d, k) == d[CHOOSE i \in 1..Len(d) : d[i].key = k].val

dict_set_KeepFirst(d, k, v) ==
    IF dict_contains(d, k) THEN d ELSE Append(d, [key |-> k, val |-> v])

dict_set_MoveToEnd(d, k, v) ==
    Append(SelectSeq(d, LAMBDA item : item.key # k), [key |-> k, val |-> v])

\* d[k] = v: a new key goes to the end, a key already there keeps its place
dict_set(d, k, v) ==
    IF dict_contains(d, k)
    THEN [i \in 1..Len(d) |-> IF d[i].key = k THEN [key |-> k, val |-> v] ELSE d[i]]
    ELSE Append(d, [key |-> k, val |-> v])

merge_DefaultWins(default_kwargs, engine_kwargs) ==
    [k \in DOMAIN default_kwargs \cup DOMAIN engine_kwargs |->
        IF k \in DOMAIN default_kwargs THEN default_kwargs[k] ELSE engine_kwargs[k]]

\* {**default_kwargs, **engine_kwargs}
merge(default_kwargs, engine_kwargs) ==
    [k \in DOMAIN default_kwargs \cup DOMAIN engine_kwargs |->
        IF k \in DOMAIN engine_kwargs THEN engine_kwargs[k] ELSE default_kwargs[k]]

\* an object handed to a caller: a new one, or one the factory still holds
Fresh(kind, val) == [ref |-> "fresh", kind |-> kind, val |-> val]

NoObject == [ref |-> "none", kind |-> "none", val |-> <<>>]

\* list(cls._registry.keys())
list_copy(d) == Fresh("list", dict_keys(d))

dict_copy_Alias(d) == [ref |-> "_display_names", kind |-> "dict", val |-> d]

\* cls._display_names.copy()
dict_copy(d) == Fresh("dict", d)

\* the keyword parameters the constructors take besides speaker_wav and device
constructor_parameters(cls) ==
    IF cls = "CoquiEngine" THEN {"model_name"} ELSE {"variant"}

\* engine_class(speaker_wav=speaker_wav, device=device, **merged_kwargs)
construct(cls, speaker_wav, device, kwargs) ==
    [kind |-> IF DOMAIN kwargs \subseteq constructor_parameters(cls)
              THEN "instance" ELSE "TypeError",
     cls |-> cls, speaker_wav |-> speaker_wav, device |-> device, kwargs |-> kwargs]

unknown_engine_error_Defaults(reg) ==
    [kind |-> "ValueError",
     available |-> <<"coqui", "chatterbox-turbo", "chatterbox-standard">>]

\* raise ValueError(f"Unknown engine: ... Available engines: {available}")
unknown_engine_error(reg) == [kind |-> "ValueError", available |-> dict_keys(reg)]

\* the registrations _register_default_engines makes
DefaultCoqui ==
    [name |-> "coqui", engine_class |-> "CoquiEngine", display_name |-> "Coqui XTTS v2",
     default_kwargs |-> NoKwargs]

DefaultTurbo ==
    [name |-> "chatterbox-turbo", engine_class |-> "ChatterboxEngine",
     display_name |-> "Chatterbox Turbo (350M)", default_kwargs |-> [variant |-> "turbo"]]

DefaultStandard ==
    [name |-> "chatterbox-standard", engine_class |-> "ChatterboxEngine",
     display_name |-> "Chatterbox Standard (500M)",
     default_kwargs |-> [variant |-> "standard"]]

\* the arguments callers give to register: the module's registration of
\* coqui once more, coqui and a new name with other values, the new name
\* with another class
Registrations ==
    LET Xtts == [DefaultCoqui EXCEPT !.display_name = "XTTS",
                                     !.default_kwargs = [model_name |-> "xtts_v1"]]
    IN  {DefaultCoqui, Xtts, [Xtts EXCEPT !.name = "custom"],
         [DefaultTurbo EXCEPT !.name = "custom"]}

\* the names callers ask for
EngineNames == EngineIds \cup {"custom", "nope"}

Devices == {None, "cpu"}

CreateKwargs == {NoKwargs, [variant |-> "standard"], [model_name |-> "xtts_v1"]}

\* what an import statement may do: succeed, raise ImportError (the package is
\* not installed), or raise something else (the package is there and fails
\* while loading)
ImportOutcomes == {"ok", "ImportError", "OSError"}

\* the effect of register on the two dicts
Registered(reg, names, r) ==
    [registry |-> dict_set(reg, r.name,
                           [engine_class |-> r.engine_class,
                            default_kwargs |-> r.default_kwargs]),
     display_names |-> dict_set(names, r.name, r.display_name)]

FacFrame == UNCHANGED exceptFactory

\* _register_default_engines, run by the import of tts_factory.  The import
\* of engines.coqui_engine loads soundfile; engines.chatterbox_engine loads
\* only what tts_engine_base has loaded before it.
register_default_engines ==
    /\ fac_pc = "importing"
    /\ \E coqui_import \in ImportOutcomes :
          LET first == IF coqui_import = "ok" THEN <<DefaultCoqui>> ELSE <<>>
              all == first \o <<DefaultTurbo, DefaultStandard>>
              after1 == IF coqui_import = "ok"
                        THEN Registered(registry, display_names, DefaultCoqui)
                        ELSE [registry |-> registry, display_names |-> display_names]
              after2 == Registered(after1.registry, after1.display_names, DefaultTurbo)
              after3 == Registered(after2.registry, after2.display_names, DefaultStandard)
          IN  IF coqui_import = "OSError"
              THEN /\ fac_pc' = "import failed"
                   /\ UNCHANGED <<registry, display_names, reg_log>>
              ELSE /\ fac_pc' = "ready"
                   /\ registry' = after3.registry
                   /\ display_names' = after3.display_names
                   /\ reg_log' = reg_log \o all
    /\ UNCHANGED <<fac_call, fac_result, fac_returned>>
    /\ FacFrame

\* TTSFactory.register(name, engine_class, display_name, **default_kwargs)
register ==
    /\ fac_pc = "ready"
    /\ Len(reg_log) < 3 + MaxRegisters
    /\ \E r \in Registrations :
          /\ registry' = Registered(registry, display_names, r).registry
          /\ display_names' = Registered(registry, display_names, r).display_names
          /\ reg_log' = Append(reg_log, r)
          /\ fac_call' = [op |-> "register", args |-> r]
    /\ fac_result' = [kind |-> "None"]
    /\ fac_returned' = NoObject
    /\ UNCHANGED fac_pc
    /\ FacFrame

\* TTSFactory.create(engine_name, speaker_wav, device, **engine_kwargs)
create ==
    /\ fac_pc = "ready"
    /\ \E engine_name \in EngineNames, device \in Devices, engine_kwargs \in CreateKwargs :
          /\ fac_call' = [op |-> "create",
                          args |-> [engine_name |-> engine_name, speaker_wav |-> "voice.wav",
                                    device |-> device, engine_kwargs |-> engine_kwargs]]
          /\ fac_result' =
                IF ~dict_contains(registry, engine_name)
                THEN unknown_engine_error(registry)
                ELSE LET entry == dict_get(registry, engine_name)
                     IN  construct(entry.engine_class, "voice.wav", device,
                                   merge(entry.default_kwargs, engine_kwargs))
    /\ fac_returned' = NoObject
    /\ UNCHANGED <<registry, display_names, fac_pc, reg_log>>
    /\ FacFrame

\* TTSFactory.available_engines()
available_engines ==
    /\ fac_pc = "ready"
    /\ fac_call' = [op |-> "available_engines", args |-> <<>>]
    /\ fac_returned' = list_copy(registry)
    /\ fac_result' = [kind |-> "list", value |-> fac_returned'.val]
    /\ UNCHANGED <<registry, display_names, fac_pc, reg_log>>
    /\ FacFrame

\* TTSFactory.get_display_name(engine_name)
get_display_name ==
    /\ fac_pc = "ready"
    /\ \E engine_name \in EngineNames :
          /\ fac_call' = [op |-> "get_display_name", args |-> [engine_name |-> engine_name]]
          /\ fac_result' =
                [kind |-> "str",
                 value |-> IF dict_contains(display_names, engine_name)
                           THEN dict_get(display_names, engine_name)
                           ELSE engine_name]
    /\ fac_returned' = NoObject
    /\ UNCHANGED <<registry, display_names, fac_pc, reg_log>>
    /\ FacFrame

\* TTSFactory.get_engine_info()
get_engine_info ==
    /\ fac_pc = "ready"
    /\ fac_call' = [op |-> "get_engine_info", args |-> <<>>]
    /\ fac_returned' = dict_copy(display_names)
    /\ fac_result' = [kind |-> "dict", value |-> fac_returned'.val]
    /\ UNCHANGED <<registry, display_names, fac_pc, reg_log>>
    /\ FacFrame

\* the package is_available tries to import for a name
probe_module(engine_name) ==
    IF engine_name = "coqui" THEN "TTS"
    ELSE IF engine_name \in {"chatterbox-turbo", "chatterbox-standard"} THEN "chatterbox"
    ELSE None

\* TTSFactory.is_available: try: import ...; return True; except ImportError:
\* return False
is_available_result(reg, engine_name, probe) ==
    IF ~dict_contains(reg, engine_name) THEN [kind |-> "bool", value |-> FALSE]
    ELSE IF probe_module(engine_name) = None \/ probe = "ok"
    THEN [kind |-> "bool", value |-> TRUE]
    ELSE IF probe = "ImportError" THEN [kind |-> "bool", value |-> FALSE]
    ELSE [kind |-> "raised", value |-> probe]

\* TTSFactory.is_available(engine_name); probe: what the import statement does
is_available ==
    /\ fac_pc = "ready"
    /\ \E engine_name \in EngineNames, probe \in ImportOutcomes :
          /\ fac_call' = [op |-> "is_available",
                          args |-> [engine_name |-> engine_name, probe |-> probe]]
          /\ fac_result' = is_available_result(registry, engine_name, probe)
    /\ fac_returned' = NoObject
    /\ UNCHANGED <<registry, display_names, fac_pc, reg_log>>
    /\ FacFrame

\* the caller empties the list or the dict a call has returned to it
CallerMutates ==
    /\ fac_pc = "ready"
    /\ fac_returned.kind # "none" /\ fac_returned.val # <<>>
    /\ fac_returned' = [fac_returned EXCEPT !.val = <<>>]
    /\ registry' = IF fac_returned.ref = "_registry" THEN EmptyDict ELSE registry
    /\ display_names' = IF fac_returned.ref = "_display_names" THEN EmptyDict
                        ELSE display_names
    /\ UNCHANGED <<fac_pc, reg_log, fac_call, fac_result>>
    /\ FacFrame

\* the class attributes before _register_default_engines has run
IdleFactory ==
    /\ registry = EmptyDict
    /\ display_names = EmptyDict
    /\ fac_pc = "importing"
    /\ reg_log = <<>>
    /\ fac_call = [op |-> "none", args |-> <<>>]
    /\ fac_result = [kind |-> "None"]
    /\ fac_returned = NoObject

(***************************************************************************)
(* vcloner.py: the command line                                            *)
(***************************************************************************)
\* what the command line may hold: -i, -t and -o given or not (None), an
\* engine among the choices or not, the two flags
CliArguments ==
    [input_voice : {None, "voice.wav", "nonexistent_file.wav"},
     text : {None, "Hello world"},
     output_file : {None, "output.wav", "out/output.wav"},
     engine : EngineIds \cup {"nope"},
     list_engines : BOOLEAN,
     no_play : BOOLEAN]

\* choices=available_engines, with the default engines registered
engine_choices == EngineIds

Line(kind, about) == [kind |-> kind, about |-> about]

\* the exit status of the interpreter: 0 when main() has returned, 1 when an
\* exception has left it, 2 when argparse has called parser.error
ExitReturned == 0

ExitTraceback == 1

ExitArgparse == 2

\* parser.parse_args(): -i, -t and -o are not declared required; a value of
\* --engine outside the choices makes argparse print the usage and exit
parse_args ==
    /\ cli_pc = "start"
    /\ \E args \in CliArguments :
          /\ cli_args' = args
          /\ IF args.engine \in engine_choices
             THEN /\ cli_pc' = "parsed"
                  /\ UNCHANGED <<cli_out, cli_exit>>
             ELSE /\ cli_pc' = "exited"
                  /\ cli_out' = <<Line("usage", "short"), Line("error", "invalid choice")>>
                  /\ cli_exit' = ExitArgparse
    /\ UNCHANGED cli_raised
    /\ UNCHANGED exceptCli

\* main: if args.list_engines: ... return.  probe: what the import inside
\* TTSFactory.is_available does
main_list_engines ==
    /\ cli_pc = "parsed"
    /\ cli_args.list_engines
    /\ \E probe \in ImportOutcomes :
          IF probe \in {"ok", "ImportError"}
          THEN /\ cli_out' = <<Line("print", "Available TTS Engines")>>
               /\ cli_exit' = ExitReturned
          ELSE /\ cli_out' = <<Line("traceback", probe)>>
               /\ cli_exit' = ExitTraceback
    /\ cli_pc' = "exited"
    /\ UNCHANGED <<cli_args, cli_raised>>
    /\ UNCHANGED exceptCli

\* if not args.input_voice or not args.text or not args.output_file
arguments_missing(args) ==
    args.input_voice = None \/ args.text = None \/ args.output_file = None

\* main: parser.print_help(); console.print("Error: ..."); return
main_missing_arguments ==
    /\ cli_pc = "parsed"
    /\ ~cli_args.list_engines
    /\ arguments_missing(cli_args)
    /\ cli_out' = <<Line("usage", "help"), Line("print", "Error: -i, -t, and -o are required")>>
    /\ cli_exit' = ExitReturned
    /\ cli_pc' = "exited"
    /\ UNCHANGED <<cli_args, cli_raised>>
    /\ UNCHANGED exceptCli

\* os.path.dirname(args.output_file)
dirname(path) == IF path = "out/output.wav" THEN "out" ELSE ""

\* what main logs in its three except clauses
logged_for(raised) ==
    IF raised = "FileNotFoundError"
    THEN <<Line("error", "Input voice file not found")>>
    ELSE IF raised = "ImportError"
    THEN <<Line("error", "Missing dependency"), Line("info", "Install required package")>>
    ELSE <<Line("error", raised)>>

\* main: os.makedirs of the output file's directory (outside the try: its
\* failure leaves main as a traceback), then
\* try: VoiceCloner(speaker_wav=..., engine=...); cloner.say(...) except
\* ...: logger.error(...).  The calls return or raise (the VoiceCloner of
\* voice_cloner.py has no parameter engine, and the call raises TypeError with
\* it); main returns after either.
main_generate ==
    /\ cli_pc = "parsed"
    /\ ~cli_args.list_engines
    /\ ~arguments_missing(cli_args)
    /\ \/ /\ dirname(cli_args.output_file) # ""
          /\ cli_out' = <<Line("traceback", "OSError")>>
          /\ cli_exit' = ExitTraceback
          /\ UNCHANGED cli_raised
       \/ /\ \E raised \in {None, "FileNotFoundError", "ImportError", "TypeError",
                              "RuntimeError"} :
                /\ raised = None => path_exists(cli_args.input_voice)
                /\ cli_raised' = raised
                /\ cli_out' = <<Line("info", "Initializing VoiceCloner")>> \o
                                  (IF raised = None
                                   THEN <<Line("info", "Generating speech"),
                                          Line("info", "Speech saved to")>>
                                   ELSE logged_for(raised))
          /\ cli_exit' = ExitReturned
    /\ cli_pc' = "exited"
    /\ UNCHANGED cli_args
    /\ UNCHANGED exceptCli

IdleCli ==
    /\ cli_pc = "start"
    /\ cli_args = None
    /\ cli_out = <<>>
    /\ cli_raised = None
    /\ cli_exit = None

(***************************************************************************)
(* Specification Spec: one application window and its worker threads       *)
(***************************************************************************)
Init ==
    /\ IdleText
    /\ IdleEngine
    /\ IdleCloner
    /\ IdleFactory
    /\ IdleCli
    /\ IdleGui

Next ==
    \/ select_voice_file
    \/ on_engine_changed
    \/ start_cloning
    \/ \E t \in ThreadIds : WorkerMkdir(t)
    \/ \E t \in ThreadIds : WorkerConstruct(t)
    \/ \E t \in ThreadIds : WorkerSay(t)
    \/ \E t \in ThreadIds : WorkerReturn(t)
    \/ on_cloning_finished
    \/ on_cloning_error
    \/ closeEvent
    \/ closeEvent_after_wait

Spec == Init /\ [][Next]_vars

\* a step of the worker t
Worker(t) == WorkerMkdir(t) \/ WorkerConstruct(t) \/ WorkerSay(t) \/ WorkerReturn(t)

\* SpecFair: the same, with a started QThread being scheduled until run has
\* returned (the calls it makes return or raise) and the event loop of the
\* main thread delivering the queued signals while the window is open
SpecFair ==
    /\ Spec
    /\ \A t \in ThreadIds : WF_vars(Worker(t))
    /\ WF_vars(on_cloning_finished)
    /\ WF_vars(on_cloning_error)

(***************************************************************************)
(* Specification SpecCloner: one VoiceCloner, constructed and used         *)
(***************************************************************************)
InitCloner ==
    /\ IdleFactory
    /\ IdleCli
    /\ IdleText
    /\ IdleEngine
    /\ IdleGui
    /\ vc_state = "none"
    /\ vc_tts_loaded = FALSE
    /\ vc_speaker_wav = None
    /\ vc_files = <<>>
    /\ vc_request = <<>>
    /\ vc_forwarded = <<>>
    /\ vc_played = <<>>
    /\ vc_result = None
    /\ vc_written = <<>>
    /\ vc_audio = <<>>

NextCloner ==
    \/ VoiceClonerInit
    \/ say

SpecCloner == InitCloner /\ [][NextCloner]_vars

(***************************************************************************)
(* Specification SpecEngine: an engine instance and calls of its generate  *)
(***************************************************************************)
InitEngine ==
    /\ IdleFactory
    /\ IdleCli
    /\ IdleText
    /\ IdleCloner
    /\ IdleGui
    /\ eng_id \in EngineIds
    /\ eng_loaded = FALSE
    /\ speaker_exists \in BOOLEAN
    /\ dep_installed \in BOOLEAN
    /\ eng_request = <<>>
    /\ eng_forwarded = <<>>
    /\ eng_result = None
    /\ eng_load = <<>>
    /\ eng_scratch = <<>>
    /\ eng_tmp = {}

NextEngine ==
    \/ ChatterboxGenerate
    \/ CoquiGenerate

SpecEngine == InitEngine /\ [][NextEngine]_vars

(***************************************************************************)
(* Specification SpecEngineLife: the lifetime of an engine instance whose   *)
(* callers give no keyword overrides                                       *)
(***************************************************************************)
NextEngineLife ==
    \/ ChatterboxGenerateDefaults
    \/ CoquiGenerateDefaults

SpecEngineLife == InitEngine /\ [][NextEngineLife]_vars

(***************************************************************************)
(* Specification SpecText: validate_text applied to every text             *)
(***************************************************************************)
InitText ==
    /\ IdleFactory
    /\ IdleCli
    /\ IdleEngine
    /\ IdleCloner
    /\ IdleGui
    /\ vt_variant \in ChatterboxVariants
    /\ vt_text \in AllTexts
    /\ vt_verdict = <<>>

ValidateText ==
    /\ vt_verdict = <<>>
    /\ vt_verdict' = <<validate_text(vt_variant, vt_text)>>
    /\ UNCHANGED <<vt_variant, vt_text>>
    /\ UNCHANGED exceptText

NextText == ValidateText

SpecText == InitText /\ [][NextText]_vars

(***************************************************************************)
(* Specification SpecFactory: the import of tts_factory and calls of the   *)
(* class methods of TTSFactory                                             *)
(***************************************************************************)
InitFactory ==
    /\ IdleText
    /\ IdleEngine
    /\ IdleCloner
    /\ IdleGui
    /\ IdleFactory
    /\ IdleCli

NextFactory ==
    \/ register_default_engines
    \/ register
    \/ create
    \/ available_engines
    \/ get_display_name
    \/ get_engine_info
    \/ is_available
    \/ CallerMutates

SpecFactory == InitFactory /\ [][NextFactory]_vars

(***************************************************************************)
(* Specification SpecCli: one run of vcloner.py                            *)
(***************************************************************************)
InitCli ==
    /\ IdleText
    /\ IdleEngine
    /\ IdleCloner
    /\ IdleGui
    /\ IdleFactory
    /\ IdleCli

NextCli ==
    \/ parse_args
    \/ main_list_engines
    \/ main_missing_arguments
    \/ main_generate

SpecCli == InitCli /\ [][NextCli]_vars

(***************************************************************************)
(* Properties of validate_text                                             *)
(***************************************************************************)
\* the places of a text where a bracket, a word and a closing bracket follow
\* one another
TagPlaces(text) ==
    {i \in 1..(Len(text) - 2) :
        text[i] = LBracket /\ text[i + 1] \in Words /\ text[i + 2] = RBracket}

AllowedTags == {PARALINGUISTIC_TAGS[i] : i \in 1..Len(PARALINGUISTIC_TAGS)}

OffendingPlaces(text) == {i \in TagPlaces(text) : text[i + 1] \notin AllowedTags}

\* the tokens at a set of places, in the order of the text
RECURSIVE TokensAt(_, _)
TokensAt(text, places) ==
    IF places = {} THEN <<>>
    ELSE LET first == CHOOSE i \in places : \A j \in places : i <= j
         IN  <<text[first + 1]>> \o TokensAt(text, places \ {first})

C11_StandardVerdict ==
    (vt_verdict # <<>> /\ vt_variant = "standard" /\ Strip(vt_text) # <<>>) =>
        LET v == vt_verdict[1]
        IN  /\ v.valid = (TagPlaces(vt_text) = {})
            /\ ~v.valid =>
                  v.message.kind = "Paralinguistic tags are only supported in Turbo variant"

C11_Witness ==
    /\ vt_variant = "standard"
    /\ vt_text = <<"foo", Blank, LBracket, "laugh", RBracket>>
    /\ vt_verdict # <<>>
    /\ ~vt_verdict[1].valid

(***************************************************************************)
(* Properties of generate                                                  *)
(***************************************************************************)
IsNumeric(entry) == "min" \in DOMAIN entry

Schema == get_supported_parameters(engine_class(eng_id))

\* the numeric overrides of a request that lie outside the schema's range
OutOfRangeKeys(request) ==
    {k \in DOMAIN request.kwargs \cap DOMAIN Schema :
        /\ IsNumeric(Schema[k])
        /\ (request.kwargs[k] < Schema[k].min \/ request.kwargs[k] > Schema[k].max)}

UnknownKeys(request) == DOMAIN request.kwargs \ DOMAIN Schema

\* C4: a numeric override strictly outside [min, max] is rejected with
\* ParameterOutOfRange before anything is dispatched, and an override on or
\* between the bounds is not rejected for its range.
\* (Stated for the requests nothing else stops: the reference audio exists and
\* the backing package is installed.)
Dispatchable == eng_request # <<>> /\ speaker_exists /\ dep_installed

C4_OutOfRangeRejected ==
    Dispatchable =>
        /\ OutOfRangeKeys(eng_request[1]) # {} =>
              (eng_result = "ParameterOutOfRange" /\ eng_forwarded = <<>>)
        /\ OutOfRangeKeys(eng_request[1]) = {} => eng_result # "ParameterOutOfRange"

\* C5: a request with an override key that is not in the engine's schema is
\* rejected with UnknownParameter and the backing model is not invoked.
C5_UnknownParameterRejected ==
    (Dispatchable /\ UnknownKeys(eng_request[1]) # {}) =>
        (eng_result = "UnknownParameter" /\ eng_forwarded = <<>>)

\* C6: a request whose language code is not among the engine's supported
\* languages fails with an error and produces no audio.
C6_InvalidOptionRejected ==
    (eng_request # <<>>
        /\ ~InList(eng_request[1].language, supports_languages(engine_class(eng_id)))) =>
        eng_result # "audio"

\* C9: the verdict of validate_text is authoritative: no text that it judges
\* invalid is synthesized by an engine that has validate_text.  (Stated for
\* texts that are not blank.)
C9_VerdictAuthoritative ==
    (eng_forwarded # <<>> /\ engine_class(eng_id) = "ChatterboxEngine"
        /\ Strip(eng_forwarded[1].text) # <<>>) =>
        validate_text(engine_variant(eng_id), eng_forwarded[1].text).valid

\* C27: once the model handle of an engine instance is loaded it stays
\* loaded, and no later call of generate invokes the loader again.
C27_LoadedAtMostOnce == [][eng_loaded => (eng_loaded' /\ eng_load' = <<>>)]_vars

\* a call of generate that used the handle an earlier call had loaded
C27_Witness ==
    /\ eng_loaded
    /\ eng_load = <<>>
    /\ eng_forwarded # <<>>
    /\ eng_result = "audio"

\* C28: the scratch file a call of generate has made is gone when the call is
\* over, whether it returned audio or raised while loading, synthesizing or
\* decoding; no scratch file stays on the disk.
C28_ScratchFileRemoved ==
    /\ eng_scratch # <<>> => eng_scratch[1] \notin eng_tmp
    /\ eng_tmp = {}

\* a call of CoquiEngine.generate that made its scratch file and raised
C28_Witness ==
    /\ eng_scratch # <<>>
    /\ eng_result \in {"ImportError", "LoadError", "BackendError"}
    /\ eng_scratch[1] \notin eng_tmp

(***************************************************************************)
(* Properties of VoiceCloner                                               *)
(***************************************************************************)
\* C8: say rejects a text that is empty once stripped with EmptyText and
\* dispatches nothing to the engine for it.
C8_EmptyTextRejected ==
    (vc_request # <<>> /\ Strip(vc_request[1].text) = <<>>) =>
        (vc_result = "EmptyText" /\ vc_forwarded = <<>>)

\* C19: constructing a VoiceCloner with a reference audio that does not exist
\* fails with FileNotFoundError, and no TTS model has been loaded by then.
C19_MissingFileFailsFirst ==
    (vc_state # "none" /\ ~path_exists(vc_speaker_wav)) =>
        (vc_state = "FileNotFoundError" /\ ~vc_tts_loaded)

\* C20: a call of say that returns has written its audio exactly when
\* save_audio is set and has played it exactly when play_audio is set; the
\* file is at the caller's output_file when one is given (a call is not
\* refused for giving one) and at the timestamp path otherwise.
C20_RoutedPerFlags ==
    vc_request # <<>> =>
        LET request == vc_request[1]
            given == "output_file" \in DOMAIN request.keywords
        IN  /\ given => vc_result # "TypeError"
            /\ vc_result = "returned" =>
                  /\ (vc_written # <<>>) = request.save_audio
                  /\ (vc_played # <<>>) = request.play_audio
                  /\ (request.save_audio /\ given) =>
                        vc_written = <<request.keywords.output_file>>
                  /\ (request.save_audio /\ ~given) =>
                        \E ts \in Timestamps :
                            vc_written = <<save_path(prefix_of(vc_speaker_wav), ts)>>

\* C21: a call of say that was asked to save its audio and whose write of the
\* output file failed does not return normally: the failure reaches the caller.
C21_SaveFailureReachesCaller ==
    (/\ vc_request # <<>>
     /\ vc_request[1].save_audio
     /\ vc_audio # <<>>
     /\ vc_written = <<>>) => vc_result # "returned"

\* the last call of say got its audio played
Played == vc_request # <<>> /\ vc_audio # <<>> /\ vc_played # <<>>

\* C26 as stated: the rate handed to the audio device is the generated sample
\* rate times the speed multiplier (speeds are in hundredths).
C26_RateIsProduct ==
    Played => vc_played[1].samplerate * 100 = vc_audio[1].samplerate * vc_request[1].speed

\* C26: the rate handed to the audio device is the integer part of the
\* generated sample rate times the speed multiplier; it is exactly twice the
\* generated rate at speed 2 and the generated rate at speed 1; the samples
\* handed over are the generated ones.
C26_PlaybackRate ==
    Played =>
        LET rate == vc_played[1].samplerate
            product == vc_audio[1].samplerate * vc_request[1].speed
        IN  /\ rate * 100 <= product /\ product < (rate + 1) * 100
            /\ vc_request[1].speed = 200 => rate = 2 * vc_audio[1].samplerate
            /\ vc_request[1].speed = 100 => rate = vc_audio[1].samplerate
            /\ vc_played[1].audio_data = vc_audio[1].audio_data

\* audio at 22050 Hz played at speed 1.25: the product is 27562.5
C26_Witness ==
    /\ Played
    /\ vc_audio[1].samplerate = 22050
    /\ vc_request[1].speed = 125
    /\ vc_played[1].samplerate = 27562

(***************************************************************************)
(* Properties of TTSFactory                                                *)
(***************************************************************************)
\* the names register has been called with, and the last call for a name
LoggedNames == {reg_log[i].name : i \in 1..Len(reg_log)}

LastLogged(name) ==
    reg_log[CHOOSE i \in 1..Len(reg_log) :
                /\ reg_log[i].name = name
                /\ \A j \in (i + 1)..Len(reg_log) : reg_log[j].name # name]

\* the names in the order of their first registration
RECURSIVE FirstRegistered(_)
FirstRegistered(n) ==
    IF n = 0 THEN <<>>
    ELSE IF \E j \in 1..(n - 1) : reg_log[j].name = reg_log[n].name
         THEN FirstRegistered(n - 1)
         ELSE Append(FirstRegistered(n - 1), reg_log[n].name)

CreateCalled == fac_call.op = "create"

\* C12: create with a name that was never registered raises the ValueError
\* "Unknown engine", constructs nothing, and the error lists every name
\* registered so far once and no other name; a registered name does not get
\* this error.
C12_UnknownEngine ==
    CreateCalled =>
        IF fac_call.args.engine_name \notin LoggedNames
        THEN /\ fac_result.kind = "ValueError"
             /\ {fac_result.available[i] : i \in 1..Len(fac_result.available)} = LoggedNames
             /\ Len(fac_result.available) = Cardinality(LoggedNames)
        ELSE fac_result.kind # "ValueError"

C12_Witness ==
    /\ CreateCalled
    /\ fac_call.args.engine_name = "nope"
    /\ fac_result.kind = "ValueError"
    /\ "custom" \in LoggedNames

\* the places a name holds in a dict
Places(d, name) == {i \in 1..Len(d) : d[i].key = name}

LastWins ==
    \A name \in LoggedNames :
        /\ Cardinality(Places(registry, name)) = 1
        /\ Cardinality(Places(display_names, name)) = 1
        /\ \A i \in Places(registry, name) :
              /\ registry[i].val.engine_class = LastLogged(name).engine_class
              /\ registry[i].val.default_kwargs = LastLogged(name).default_kwargs
        /\ \A i \in Places(display_names, name) :
              display_names[i].val = LastLogged(name).display_name

RegisteredAgain ==
    /\ Len(reg_log) >= 1
    /\ Len(reg_log') = Len(reg_log) + 1
    /\ reg_log'[Len(reg_log')] = reg_log[Len(reg_log)]

\* C13: a call of register that repeats the call before it leaves both dicts
\* as they were, and at any time each registered name is held once, with the
\* class, the default kwargs and the display name of the last call of register
\* for it.
C13_RegisterLastWins ==
    /\ [](fac_pc = "ready" => LastWins)
    /\ [][RegisteredAgain => (registry' = registry /\ display_names' = display_names)]_vars

\* coqui was registered by the module, then again with other values, then the
\* same once more
C13_Witness ==
    /\ Len(reg_log) = 5
    /\ reg_log[1].name = "coqui" /\ reg_log[4].name = "coqui"
    /\ reg_log[4].display_name = "XTTS"
    /\ reg_log[5] = reg_log[4]
    /\ Len(registry) = 3

\* C14: create for a registered name calls the registered class with
\* speaker_wav, device and the keyword arguments of the defaults and of the
\* caller: the caller's value for each of the caller's keys, the default for
\* each key only the defaults have, and no other key.
C14_MergedKwargs ==
    (CreateCalled /\ fac_call.args.engine_name \in LoggedNames) =>
        LET default_kwargs == LastLogged(fac_call.args.engine_name).default_kwargs
            engine_kwargs == fac_call.args.engine_kwargs
            passed == fac_result.kwargs
        IN  /\ fac_result.cls = LastLogged(fac_call.args.engine_name).engine_class
            /\ fac_result.speaker_wav = fac_call.args.speaker_wav
            /\ fac_result.device = fac_call.args.device
            /\ DOMAIN passed = DOMAIN default_kwargs \cup DOMAIN engine_kwargs
            /\ \A k \in DOMAIN engine_kwargs : passed[k] = engine_kwargs[k]
            /\ \A k \in DOMAIN default_kwargs \ DOMAIN engine_kwargs :
                  passed[k] = default_kwargs[k]

\* the default variant of chatterbox-turbo was overridden by the caller
C14_Witness ==
    /\ CreateCalled
    /\ fac_call.args.engine_name = "chatterbox-turbo"
    /\ fac_call.args.engine_kwargs = [variant |-> "standard"]
    /\ fac_result.kind = "instance"
    /\ fac_result.kwargs = [variant |-> "standard"]

\* C15: is_available returns a boolean for every name and never raises; it
\* returns False for a name that is not registered and for a package whose
\* import fails, however it fails.
C15_IsAvailableNeverRaises ==
    fac_call.op = "is_available" =>
        /\ fac_result.kind = "bool"
        /\ fac_call.args.engine_name \notin LoggedNames => fac_result.value = FALSE
        /\ (probe_module(fac_call.args.engine_name) # None
               /\ fac_call.args.probe # "ok") => fac_result.value = FALSE

\* C16: the two dicts of the factory change only in a call of register:
\* create, is_available, available_engines, get_display_name, get_engine_info
\* and a caller that changes a returned list or dict leave them as they were.
C16_OnlyRegisterChangesRegistry ==
    [][(registry' # registry \/ display_names' # display_names) =>
          reg_log' # reg_log]_vars

\* the caller has emptied the dict get_engine_info returned
C16_Witness ==
    /\ fac_call.op = "get_engine_info"
    /\ fac_returned.kind = "dict"
    /\ fac_returned.val = <<>>
    /\ Len(display_names) = 4

\* C17: available_engines returns every registered name once, in the order
\* in which the names were first registered.
C17_RegistrationOrder ==
    fac_call.op = "available_engines" =>
        fac_result.value = FirstRegistered(Len(reg_log))

\* custom was registered after the module's engines, then coqui once more
C17_Witness ==
    /\ fac_call.op = "available_engines"
    /\ Len(reg_log) = 5
    /\ reg_log[4].name = "custom" /\ reg_log[5].name = "coqui"
    /\ fac_result.value = <<"coqui", "chatterbox-turbo", "chatterbox-standard", "custom">>

\* create made an engine of another class than the one last registered under
\* the name it was asked for, or made one for a name that is not registered
Substituted ==
    /\ CreateCalled
    /\ fac_result.kind # "ValueError"
    /\ \/ fac_call.args.engine_name \notin LoggedNames
       \/ fac_result.cls # LastLogged(fac_call.args.engine_name).engine_class

\* C22: a backing package that does not load shows at the availability probe
\* as False (the probe does not end any other way), and a call of create never
\* makes an engine other than the one registered under the requested name.
C22_DependencyErrorSurfaced ==
    /\ (/\ fac_call.op = "is_available"
        /\ fac_call.args.engine_name \in LoggedNames
        /\ probe_module(fac_call.args.engine_name) # None
        /\ fac_call.args.probe # "ok") => fac_result = [kind |-> "bool", value |-> FALSE]
    /\ ~Substituted

\* C18: once the import of tts_factory is done, coqui, chatterbox-turbo and
\* chatterbox-standard are all registered, and is_available does not answer
\* True for one of them whose package fails to import.
C18_AllKnownRegistered ==
    fac_pc = "ready" =>
        /\ \A id \in EngineIds : Places(registry, id) # {}
        /\ (fac_call.op = "is_available" /\ fac_call.args.engine_name \in EngineIds
               /\ fac_call.args.probe # "ok") => fac_result # [kind |-> "bool", value |-> TRUE]

(***************************************************************************)
(* Properties of the application window and its worker threads             *)
(***************************************************************************)
Running == {t \in ThreadIds : threads[t].state = "running"}

\* a click on Generate with the given text and parameters, as one step
Click(raw_text, engine_params, read_ok) ==
    /\ main_pc = "idle"
    /\ ui.btn_generate
    /\ start_cloning_with(raw_text, engine_params, read_ok)
    /\ UNCHANGED <<voice_path, engine_combo, current_audio, main_pc, signal_queue>>

\* a click that asks for a generation: a voice is selected and the text is
\* not empty
Asks(raw_text) == voice_path # None /\ Strip(raw_text) # <<>>

\* C1: a click that asks for a generation while a CloneThread is running is
\* answered with "Generation In Progress", makes no second thread and leaves
\* nothing queued; with no thread running (none made yet, or the last one
\* finished with either signal) the click starts a new running thread for the
\* text, unless the reference audio cannot be copied.
C1_SingleFlight ==
    [][\A raw_text \in GuiTexts, engine_params \in ControlParameters(engine_combo),
          read_ok \in BOOLEAN :
            (Click(raw_text, engine_params, read_ok) /\ Asks(raw_text)) =>
                IF Running # {}
                THEN /\ dialog' = "Generation In Progress"
                     /\ threads' = threads
                     /\ clone_thread' = clone_thread
                     /\ signal_queue' = signal_queue
                     /\ ui' = ui
                ELSE read_ok =>
                     /\ Made' = Made \cup {clone_thread'}
                     /\ clone_thread' \notin Made
                     /\ Running' = {clone_thread'}
                     /\ threads'[clone_thread'].text = Strip(raw_text)]_vars

\* a click was refused while the first thread ran, and after that thread had
\* finished a click started the second
C1_Witness ==
    /\ dialog = "Generation In Progress"
    /\ threads[1].state = "finished"
    /\ threads[2].state = "running"

\* C2: at most one CloneThread of a window is running at any time.
C2_AtMostOneRunning == Cardinality(Running) <= 1

\* two threads have been started, the second is at work after the first
C2_Witness ==
    /\ Cardinality(Made) = 2
    /\ threads[2].pc = "say"
    /\ threads[1].pc = "done"

\* C3: a CloneThread emits at most one of finished and error_occurred, a
\* thread whose run has returned has emitted exactly one, and no exception
\* has left run.
C3_OneCompletionSignal ==
    \A t \in ThreadIds :
        /\ Len(threads[t].emitted) <= 1
        /\ ~threads[t].escaped
        /\ threads[t].state = "finished" => Len(threads[t].emitted) = 1
        /\ threads[t].pc = "return" => Len(threads[t].emitted) = 1

\* one run has returned after an exception, another after a success
C3_Witness ==
    /\ threads[1].state = "finished" /\ threads[1].emitted = <<"error_occurred">>
    /\ threads[2].state = "finished" /\ threads[2].emitted = <<"finished">>

\* the text check and the parameter check of a request for an engine
FailsChecks(engine_name, text, engine_params) ==
    \/ engine_name \notin EngineIds
    \/ text = <<>>
    \/ /\ engine_class(engine_name) = "ChatterboxEngine"
       /\ ~validate_text(engine_variant(engine_name), text).valid
    \/ LET schema == get_supported_parameters(engine_class(engine_name))
       IN  \E k \in DOMAIN engine_params :
              \/ k \notin DOMAIN schema
              \/ /\ "min" \in DOMAIN schema[k]
                 /\ (engine_params[k] < schema[k].min \/ engine_params[k] > schema[k].max)
              \/ /\ "options" \in DOMAIN schema[k]
                 /\ ~InList(engine_params[k], schema[k].options)

\* C7: a click whose text or parameters fail the checks is refused in the
\* click itself: no CloneThread is made, no file is written and the window's
\* generation state is as before.
C7_RejectedBeforeBackgroundWork ==
    [][\A raw_text \in GuiTexts, engine_params \in ControlParameters(engine_combo),
          read_ok \in BOOLEAN :
            (/\ Click(raw_text, engine_params, read_ok)
             /\ voice_path # None
             /\ FailsChecks(engine_combo, Strip(raw_text), engine_params)) =>
                /\ threads' = threads
                /\ clone_thread' = clone_thread
                /\ tmp_files' = tmp_files
                /\ temp_voice_file' = temp_voice_file]_vars


\* the three inputs start_cloning disables
InputsEnabled == ui.btn_generate /\ ui.btn_select_voice /\ ui.engine_combo

\* a generation is in flight: its worker runs or its completion signal waits
\* for the event loop
InFlight == Running # {} \/ signal_queue # <<>>

ErrorPending ==
    \E i \in 1..Len(signal_queue) : signal_queue[i].signal = "error_occurred"

\* C23: while the window is open no input is disabled unless a generation is
\* in flight; the slot that takes a worker's error shows it and leaves the
\* inputs enabled; and an error a worker has emitted leads to the inputs being
\* enabled with no worker running (a new request is accepted then), unless the
\* window is being closed.
C23_InputsReenabled ==
    /\ [](main_pc # "closed" => (InputsEnabled \/ InFlight))
    /\ [][(/\ Len(signal_queue') < Len(signal_queue)
           /\ Head(signal_queue).signal = "error_occurred")
              => (dialog' = "Generation Error" /\ InputsEnabled')]_vars
    /\ ErrorPending ~> ((InputsEnabled /\ Running = {}) \/ main_pc # "idle")

\* a failed generation is over: the error is shown, the inputs are enabled
C23_Witness ==
    /\ main_pc = "idle"
    /\ dialog = "Generation Error"
    /\ InputsEnabled
    /\ Running = {}
    /\ \E t \in ThreadIds : threads[t].emitted = <<"error_occurred">>

\* the files of the generations made so far
GenerationFiles == {TempVoice(n) : n \in Made} \cup {OutputFile(n) : n \in Made}

\* C29: once the window is closed and no worker runs, none of the temporary
\* files of the generations (copies of the reference audio, output files)
\* is left on the disk.
C29_NoTemporaryFileLeft ==
    (main_pc = "closed" /\ Running = {}) => tmp_files \cap GenerationFiles = {}

\* C30: the copy of the reference audio a running worker was given is on the
\* disk for as long as the worker runs.
C30_VoiceCopyKeptWhileRunning ==
    \A t \in Running : threads[t].voice_path \in tmp_files

ErrorLines == {i \in 1..Len(cli_out) : cli_out[i].kind = "error"}

UsagePrinted == \E i \in 1..Len(cli_out) : cli_out[i].kind = "usage"

\* C24: a run for generation (no --list-engines) that lacks the reference
\* audio or the text prints the usage and ends with a non-zero exit status.
C24_MissingArgumentExitsNonZero ==
    (/\ cli_pc = "exited"
     /\ cli_args.engine \in engine_choices
     /\ ~cli_args.list_engines
     /\ (cli_args.input_voice = None \/ cli_args.text = None)) =>
        (UsagePrinted /\ cli_exit # 0)

\* C25: a run whose generation raised (file not found, missing dependency,
\* any other error) logs one error line and ends with a non-zero exit status.
C25_GenerationFailureExitsNonZero ==
    (cli_pc = "exited" /\ cli_raised # None) =>
        (Cardinality(ErrorLines) = 1 /\ cli_exit # 0)

==============================================================================
